---- MODULE Spec2Model ----
(***************************************************************************)
(* State-machine model of the skeleton-driven organize feature:            *)
(*   - SmartOrganizeTab (staging pool, target skeleton, auto-assign pass,  *)
(*     organize / package handlers, progress dialog),                      *)
(*   - the useFileOperations hook (operation history, simulateFileOperation,*)
(*     parseStructureDefinition),                                          *)
(*   - the DirectoryContext operation log.                                 *)
(*                                                                         *)
(* JavaScript strings are TLA+ strings; every string function of the code  *)
(* (trim, split, endsWith, replace, toLowerCase, includes, template        *)
(* literals, Number -> string) is computed character by character.         *)
(* Objects that the code shares by reference (StagedFile objects, the slot *)
(* objects of one skeleton) live in heaps and are named by their address.  *)
(***************************************************************************)
EXTENDS Integers, Sequences, FiniteSets, TLC

----------------------------------------------------------------------------
(* JavaScript string primitives                                            *)

Char(s, i) == SubSeq(s, i, i)

\* String.prototype.trim / trimStart treat these as white space
IsWhiteSpace(c) == c \in {" ", "\t", "\n", "\r"}

RECURSIVE TrimStart(_)
TrimStart(s) ==
  IF Len(s) > 0 /\ IsWhiteSpace(Char(s, 1))
  THEN TrimStart(SubSeq(s, 2, Len(s)))
  ELSE s

RECURSIVE TrimEnd(_)
TrimEnd(s) ==
  IF Len(s) > 0 /\ IsWhiteSpace(Char(s, Len(s)))
  THEN TrimEnd(SubSeq(s, 1, Len(s) - 1))
  ELSE s

Trim(s) == TrimEnd(TrimStart(s))

StartsWith(s, p) == Len(s) >= Len(p) /\ SubSeq(s, 1, Len(p)) = p

EndsWith(s, p) ==
  Len(s) >= Len(p) /\ SubSeq(s, Len(s) - Len(p) + 1, Len(s)) = p

\* s.includes(sub)
Includes(s, sub) ==
  \E i \in 1..(Len(s) - Len(sub) + 1) : SubSeq(s, i, i + Len(sub) - 1) = sub

\* s.replace(/\/$/, ''): one trailing slash is removed
StripTrailingSlash(s) ==
  IF EndsWith(s, "/") THEN SubSeq(s, 1, Len(s) - 1) ELSE s

\* s.split(sep) for a one-character separator
RECURSIVE SplitFrom(_, _, _, _)
SplitFrom(s, sep, i, cur) ==
  IF i > Len(s) THEN <<cur>>
  ELSE IF Char(s, i) = sep
       THEN <<cur>> \o SplitFrom(s, sep, i + 1, "")
       ELSE SplitFrom(s, sep, i + 1, cur \o Char(s, i))

Split(s, sep) == SplitFrom(s, sep, 1, "")

UpperCaseLetters == "ABCDEFGHIJKLMNOPQRSTUVWXYZ"
LowerCaseLetters == "abcdefghijklmnopqrstuvwxyz"

LowerCaseOf ==
  [ c \in { Char(UpperCaseLetters, k) : k \in 1..Len(UpperCaseLetters) } |->
      Char(LowerCaseLetters,
           CHOOSE k \in 1..Len(UpperCaseLetters) : Char(UpperCaseLetters, k) = c) ]

LowerChar(c) == IF c \in DOMAIN LowerCaseOf THEN LowerCaseOf[c] ELSE c

RECURSIVE ToLowerCase(_)
ToLowerCase(s) ==
  IF Len(s) = 0 THEN ""
  ELSE LowerChar(Char(s, 1)) \o ToLowerCase(SubSeq(s, 2, Len(s)))

Digits == "0123456789"

\* Number.prototype.toString / template-literal conversion of a natural number
RECURSIVE NumToString(_)
NumToString(n) ==
  IF n < 10 THEN Char(Digits, n + 1)
  ELSE NumToString(n \div 10) \o Char(Digits, (n % 10) + 1)

----------------------------------------------------------------------------
(* Bounds of the model                                                     *)

MaxClock == 2      \* Date.now() takes the values 0..MaxClock
MaxClicks == 5     \* user gestures (clicks, typing) in one run of the tab
MaxAdds == 2       \* addFilesToStage calls behind a staging pool given as input
MaxHookOps == 2    \* length of the useFileOperations operation history
MaxAssignClicks == 4   \* user gestures in a run of the tab without batches

\* Structure definitions typed into the target-structure text area
Definitions ==
  { "  ",
    "a.pdf\nb.jpg\nc.pdf",
    "docs/\n  report.pdf\n  report.pdf" }

\* Math.random() * 20 in autoAssignFiles: sample values of [0, 20)
RandomSpreads == {0, 19}

----------------------------------------------------------------------------
(* useFileOperations.parseStructureDefinition                              *)

\* a filter that lets the comment lines through
ParseKept_CommentsKept(line) == Trim(line) # ""

ParseKept(line) == Trim(line) # "" /\ ~StartsWith(Trim(line), "#")

\* an indentation count that sees the space character only
RECURSIVE LeadingSpaces_SpacesOnly(_)
LeadingSpaces_SpacesOnly(line) ==
  IF Len(line) > 0 /\ Char(line, 1) = " "
  THEN 1 + LeadingSpaces_SpacesOnly(SubSeq(line, 2, Len(line)))
  ELSE 0

LeadingSpaces(line) == Len(line) - Len(TrimStart(line))

\* a parser that composes the path from the indentation of the line
ParseLine_PathFromDepth(line) ==
  LET name      == Trim(line)
      cleanName == StripTrailingSlash(name)
      depth     == LeadingSpaces(line) \div 2
  IN  IF cleanName # ""
      THEN << [ path  |-> IF depth > 0 THEN "parent/" \o cleanName ELSE cleanName,
                type  |-> IF EndsWith(name, "/") THEN "directory" ELSE "file",
                depth |-> depth,
                name  |-> cleanName ] >>
      ELSE <<>>

ParseLine(line) ==
  LET name      == Trim(line)
      cleanName == StripTrailingSlash(name)
  IN  IF cleanName # ""
      THEN << [ path  |-> cleanName,
                type  |-> IF EndsWith(name, "/") THEN "directory" ELSE "file",
                depth |-> LeadingSpaces(line) \div 2,
                name  |-> cleanName ] >>
      ELSE <<>>

RECURSIVE ParseLines(_)
ParseLines(lines) ==
  IF lines = <<>> THEN <<>>
  ELSE ParseLine(Head(lines)) \o ParseLines(Tail(lines))

parseStructureDefinition(definition) ==
  ParseLines(SelectSeq(Split(definition, "\n"), ParseKept))

----------------------------------------------------------------------------
(* SmartOrganizeTab.buildTargetStructure: the slots of a definition        *)

NoFile == 0        \* slot.assignedFile is undefined
NoConfidence == 0  \* slot.confidence is undefined

NonBlank(line) == Trim(line) # ""

\* `slot_${index}`, index = position of the line among the non-blank lines
SlotId(index) == "slot_" \o NumToString(index)

\* a builder that derives the id from the path, not from the line index
SlotOfLine_IdFromPath(line, index) ==
  LET trimmed == Trim(line)
  IN  IF trimmed # "" /\ ~StartsWith(trimmed, "#") /\ ~EndsWith(trimmed, "/")
      THEN << [ id           |-> "slot_" \o StripTrailingSlash(trimmed),
                path         |-> StripTrailingSlash(trimmed),
                type         |-> "file",
                status       |-> "empty",
                assignedFile |-> NoFile,
                confidence   |-> NoConfidence ] >>
      ELSE <<>>

\* a builder that makes a slot for the directory lines too
SlotOfLine_DirectoriesToo(line, index) ==
  LET trimmed == Trim(line)
  IN  IF trimmed # "" /\ ~StartsWith(trimmed, "#")
      THEN << [ id           |-> SlotId(index),
                path         |-> StripTrailingSlash(trimmed),
                type         |-> "file",
                status       |-> "empty",
                assignedFile |-> NoFile,
                confidence   |-> NoConfidence ] >>
      ELSE <<>>

SlotOfLine(line, index) ==
  LET trimmed == Trim(line)
  IN  IF trimmed # "" /\ ~StartsWith(trimmed, "#") /\ ~EndsWith(trimmed, "/")
      THEN << [ id           |-> SlotId(index),
                path         |-> StripTrailingSlash(trimmed),
                type         |-> "file",
                status       |-> "empty",
                assignedFile |-> NoFile,
                confidence   |-> NoConfidence ] >>
      ELSE <<>>

RECURSIVE SlotsFrom(_, _)
SlotsFrom(lines, index) ==
  IF index >= Len(lines) THEN <<>>
  ELSE SlotOfLine(lines[index + 1], index) \o SlotsFrom(lines, index + 1)

\* a builder that numbers the lines after dropping the comment lines too
BuildSlots_CommentsNotCounted(definition) ==
  SlotsFrom(SelectSeq(Split(definition, "\n"), ParseKept), 0)

BuildSlots(definition) ==
  SlotsFrom(SelectSeq(Split(definition, "\n"), NonBlank), 0)

----------------------------------------------------------------------------
(* State                                                                   *)

VARIABLES
  now,              \* the value Date.now() returns
  fileHeap,         \* StagedFile objects, by address 1..Len(fileHeap)
  stagedFiles,      \* SmartOrganizeTab state: array of StagedFile addresses
  targetStructure,  \* SmartOrganizeTab state: the definition text
  slotHeap,         \* TargetSlot objects, by address 1..Len(slotHeap)
  targetSlots,      \* SmartOrganizeTab state: array of TargetSlot addresses
  showProgress,     \* SmartOrganizeTab state: progress dialog open
  progress,         \* SmartOrganizeTab state: percent as <<numerator, denominator>>
  progressMessage,  \* SmartOrganizeTab state
  passes,           \* invocations of autoAssignFiles (their closures)
  dirOperations,    \* DirectoryContext state: operation log, newest first
  operations,       \* useFileOperations state: operation history, newest first
  isProcessing,     \* useFileOperations state
  batches,          \* invocations of simulateFileOperation (their closures)
  clicks,           \* user gestures so far (bounds the run, not program state)
  runs,             \* auto-match runs on given inputs (specification SpecMatch)
  builds            \* skeletons built from given definitions (specification SpecBuild)

vars == << now, fileHeap, stagedFiles, targetStructure, slotHeap, targetSlots,
           showProgress, progress, progressMessage, passes, dirOperations,
           operations, isProcessing, batches, clicks, runs, builds >>

\* the state of SmartOrganizeTab and of its DirectoryContext
tabVars == << fileHeap, stagedFiles, targetStructure, slotHeap, targetSlots,
              showProgress, progress, progressMessage, passes, dirOperations,
              clicks >>

\* the state of one useFileOperations instance
hookVars == << now, operations, isProcessing, batches >>

\* the inputs and results of the functions checked on their own
pureVars == << runs, builds >>

\* (k / n) * 100 as the exact fraction k*100 / n
Percent(k, n) == << k * 100, n >>

\* Date.now(): the clock never goes back
ClockReads == now..MaxClock

\* one more gesture of the user
UserGesture == clicks < MaxClicks /\ clicks' = clicks + 1

----------------------------------------------------------------------------
(* DirectoryContext.addOperation                                           *)

DirAddOperation(ops, t, operation, details) ==
  << [ id        |-> NumToString(t),
       operation |-> operation,
       details   |-> details,
       status    |-> "success" ] >> \o ops

----------------------------------------------------------------------------
(* SmartOrganizeTab.addFilesToStage                                        *)

NewStagedFiles(t, count) ==
  << [ id     |-> NumToString(t),
       name   |-> "document_" \o NumToString(count + 1) \o ".pdf",
       path   |-> "/files/document_" \o NumToString(count + 1) \o ".pdf",
       type   |-> "application/pdf",
       status |-> "staged",
       targetPath |-> "" ],
     [ id     |-> NumToString(t + 1),
       name   |-> "image_" \o NumToString(count + 1) \o ".jpg",
       path   |-> "/files/image_" \o NumToString(count + 1) \o ".jpg",
       type   |-> "image/jpeg",
       status |-> "staged",
       targetPath |-> "" ] >>

addFilesToStage ==
  /\ UserGesture
  /\ \E t \in ClockReads :
       /\ now' = t
       /\ fileHeap' = fileHeap \o NewStagedFiles(t, Len(stagedFiles))
       /\ stagedFiles' = stagedFiles \o << Len(fileHeap) + 1, Len(fileHeap) + 2 >>
  /\ UNCHANGED << targetStructure, slotHeap, targetSlots, showProgress, progress,
                  progressMessage, passes, dirOperations, operations,
                  isProcessing, batches, runs, builds >>

----------------------------------------------------------------------------
(* The target-structure text area and SmartOrganizeTab.buildTargetStructure *)
(*                                                                         *)
(* targetStructure is written by the text area's onChange handler          *)
(* (setTargetStructure) and read by buildTargetStructure alone, so typing  *)
(* commutes with every other handler and timer: each behaviour is          *)
(* equivalent to one in which the text is typed right before the click on  *)
(* "Build Target Structure".  The action is that pair of handlers.         *)

\* lines 528-531: a blank definition is refused with an alert
DefinitionIsBlank(definition) == Trim(definition) = ""

\* a rebuild that keeps the slots of the previous skeleton in front of the new
buildTargetStructure_KeepsSkeleton(definition) ==
  /\ UserGesture
  /\ targetStructure' = definition
  /\ IF DefinitionIsBlank(definition)
     THEN UNCHANGED << now, slotHeap, targetSlots, dirOperations >>
     ELSE LET slots == BuildSlots(definition)
          IN  /\ slotHeap' = slotHeap \o slots
              /\ targetSlots' =
                   targetSlots \o [ j \in 1..Len(slots) |-> Len(slotHeap) + j ]
              /\ \E t \in ClockReads :
                   /\ now' = t
                   /\ dirOperations' =
                        DirAddOperation(dirOperations, t, "build_target_structure",
                          "Created " \o NumToString(Len(slots)) \o " target slots")
  /\ UNCHANGED << fileHeap, stagedFiles, showProgress, progress,
                  progressMessage, passes, operations, isProcessing, batches,
                  runs, builds >>

buildTargetStructure(definition) ==
  /\ UserGesture
  /\ targetStructure' = definition
  /\ IF DefinitionIsBlank(definition)
     THEN UNCHANGED << now, slotHeap, targetSlots, dirOperations >>
     ELSE LET slots == BuildSlots(definition)
          IN  /\ slotHeap' = slotHeap \o slots
              /\ targetSlots' = [ j \in 1..Len(slots) |-> Len(slotHeap) + j ]
              /\ \E t \in ClockReads :
                   /\ now' = t
                   /\ dirOperations' =
                        DirAddOperation(dirOperations, t, "build_target_structure",
                          "Created " \o NumToString(Len(slots)) \o " target slots")
  /\ UNCHANGED << fileHeap, stagedFiles, showProgress, progress,
                  progressMessage, passes, operations, isProcessing, batches,
                  runs, builds >>

----------------------------------------------------------------------------
(* SmartOrganizeTab.autoAssignFiles                                        *)

ConfidenceBase == 75    \* slot.confidence = 75 + Math.random() * 20

\* slot.path.split('.').pop()?.toLowerCase(), then `|| ''`
TargetExt(path) ==
  LET parts == Split(path, ".") IN ToLowerCase(parts[Len(parts)])

\* the predicate of updatedFiles.find(...)
FileMatches(file, targetExt) ==
  /\ file.status = "staged"
  /\ Includes(ToLowerCase(file.name), targetExt)

\* a search that returns the last matching file of the pool
FindMatchingFile_Latest(fh, updatedFiles, targetExt) ==
  LET hits == { k \in 1..Len(updatedFiles) :
                  FileMatches(fh[updatedFiles[k]], targetExt) }
  IN  IF hits = {} THEN NoFile
      ELSE updatedFiles[CHOOSE k \in hits : \A m \in hits : k >= m]

\* updatedFiles.find(...): address of the first matching file, NoFile when none
FindMatchingFile(fh, updatedFiles, targetExt) ==
  LET hits == { k \in 1..Len(updatedFiles) :
                  FileMatches(fh[updatedFiles[k]], targetExt) }
  IN  IF hits = {} THEN NoFile
      ELSE updatedFiles[CHOOSE k \in hits : \A m \in hits : k <= m]

\* a guard that only spares the slots matched by an earlier pass
SlotIsOpen_NotAutoMatched(slot) == slot.status # "auto-matched"

\* the guard of one loop iteration: an assignment is made to this slot
SlotIsOpen(slot) == slot.status = "empty"

\* a loop body that links the file and leaves the status of the slot alone
PassIteration_StatusNotSet(sh, fh, p, rnd) ==
  LET sa   == p.updatedSlots[p.i + 1]
      slot == sh[sa]
      fa   == IF SlotIsOpen(slot)
              THEN FindMatchingFile(fh, p.updatedFiles, TargetExt(slot.path))
              ELSE NoFile
  IN  IF fa # NoFile
      THEN [ sh |-> [ sh EXCEPT ![sa] =
                        [ slot EXCEPT !.assignedFile = fa,
                                      !.confidence = ConfidenceBase + rnd ] ],
             fh |-> [ fh EXCEPT ![fa] =
                        [ fh[fa] EXCEPT !.status = "assigned",
                                        !.targetPath = slot.path ] ],
             p  |-> [ p EXCEPT !.i = p.i + 1,
                               !.assignedCount = p.assignedCount + 1 ] ]
      ELSE [ sh |-> sh, fh |-> fh, p |-> [ p EXCEPT !.i = p.i + 1 ] ]

\* One iteration of the for loop on slot number p.i + 1 (lines 577-598); rnd is
\* the value of Math.random() * 20.  Yields the heaps and the updated closure.
PassIteration(sh, fh, p, rnd) ==
  LET sa   == p.updatedSlots[p.i + 1]
      slot == sh[sa]
      fa   == IF SlotIsOpen(slot)
              THEN FindMatchingFile(fh, p.updatedFiles, TargetExt(slot.path))
              ELSE NoFile
  IN  IF fa # NoFile
      THEN [ sh |-> [ sh EXCEPT ![sa] =
                        [ slot EXCEPT !.assignedFile = fa,
                                      !.status = "auto-matched",
                                      !.confidence = ConfidenceBase + rnd ] ],
             fh |-> [ fh EXCEPT ![fa] =
                        [ fh[fa] EXCEPT !.status = "assigned",
                                        !.targetPath = slot.path ] ],
             p  |-> [ p EXCEPT !.i = p.i + 1,
                               !.assignedCount = p.assignedCount + 1 ] ]
      ELSE [ sh |-> sh, fh |-> fh, p |-> [ p EXCEPT !.i = p.i + 1 ] ]

\* whether the iteration draws a random number at all
IterationMatches(sh, fh, p) ==
  LET slot == sh[p.updatedSlots[p.i + 1]]
  IN  /\ SlotIsOpen(slot)
      /\ FindMatchingFile(fh, p.updatedFiles, TargetExt(slot.path)) # NoFile

Randoms(sh, fh, p) ==
  IF IterationMatches(sh, fh, p) THEN RandomSpreads ELSE {0}

PassProgressMessage(p) ==
  "Processing slot " \o NumToString(p.i) \o "/" \o NumToString(Len(p.updatedSlots))

RemoveAt(seq, k) == SubSeq(seq, 1, k - 1) \o SubSeq(seq, k + 1, Len(seq))

\* lines 562-565: without staged files or without slots the handler alerts
\* and returns
PassInputsMissing(files, slots) == Len(files) = 0 \/ Len(slots) = 0

NeedBothAlert == "Need both staged files and target slots"
FailedAlert == "Auto-assignment failed"
DoneAlert(assignedCount) ==
  "Successfully auto-assigned " \o NumToString(assignedCount) \o " files!"

\* an entry that goes for the first staged file and the first slot unguarded:
\* the TypeError on a missing one ends in the catch clause
AutoAssignEntry_Unguarded(files, slots) ==
  IF PassInputsMissing(files, slots) THEN FailedAlert ELSE ""

\* what the handler alerts before its loop; "" when it goes on to the loop
AutoAssignEntry(files, slots) ==
  IF PassInputsMissing(files, slots) THEN NeedBothAlert ELSE ""

\* click on "Auto-Assign": lines 561-601, up to the first await
autoAssignFiles ==
  /\ AutoAssignEntry(stagedFiles, targetSlots) = ""
  /\ UserGesture
  /\ LET p0 == [ updatedSlots  |-> targetSlots,
                 updatedFiles  |-> stagedFiles,
                 i             |-> 0,
                 assignedCount |-> 0 ]
     IN  \E rnd \in Randoms(slotHeap, fileHeap, p0) :
           LET r == PassIteration(slotHeap, fileHeap, p0, rnd)
           IN  /\ slotHeap' = r.sh
               /\ fileHeap' = r.fh
               /\ passes' = Append(passes, r.p)
               /\ showProgress' = TRUE
               /\ progress' = Percent(r.p.i, Len(targetSlots))
               /\ progressMessage' = PassProgressMessage(r.p)
  /\ UNCHANGED << now, stagedFiles, targetStructure, targetSlots, dirOperations,
                  operations, isProcessing, batches, runs, builds >>

\* the 100 ms timer of a pass fires and the loop goes on: lines 576-601
autoAssignStep(k) ==
  /\ UNCHANGED clicks
  /\ passes[k].i < Len(passes[k].updatedSlots)
  /\ \E rnd \in Randoms(slotHeap, fileHeap, passes[k]) :
       LET r == PassIteration(slotHeap, fileHeap, passes[k], rnd)
       IN  /\ slotHeap' = r.sh
           /\ fileHeap' = r.fh
           /\ passes' = [ passes EXCEPT ![k] = r.p ]
           /\ progress' = Percent(r.p.i, Len(r.p.updatedSlots))
           /\ progressMessage' = PassProgressMessage(r.p)
  /\ UNCHANGED << now, stagedFiles, targetStructure, targetSlots, showProgress,
                  dirOperations, operations, isProcessing, batches, runs,
                  builds >>

\* the last timer of a pass fires and the loop ends: lines 604-618
autoAssignFinish(k) ==
  /\ UNCHANGED clicks
  /\ passes[k].i = Len(passes[k].updatedSlots)
  /\ targetSlots' = passes[k].updatedSlots
  /\ stagedFiles' = passes[k].updatedFiles
  /\ \E t \in ClockReads :
       /\ now' = t
       /\ dirOperations' =
            DirAddOperation(dirOperations, t, "auto_assign",
              "Auto-assigned " \o NumToString(passes[k].assignedCount) \o " files")
  /\ showProgress' = FALSE
  /\ passes' = RemoveAt(passes, k)
  /\ UNCHANGED << fileHeap, targetStructure, slotHeap, progress, progressMessage,
                  operations, isProcessing, batches, runs, builds >>

----------------------------------------------------------------------------
(* useFileOperations: addOperation, updateOperation                        *)

HookAddOperation(ops, t, type, details, status) ==
  << [ id |-> NumToString(t), type |-> type, details |-> details,
       status |-> status ] >> \o ops

\* prev.map(op => op.id === id ? { ...op, ...updates } : op)
UpdateMatches(op, id) == op.id = id

updateOperation(ops, id, status, details) ==
  [ k \in 1..Len(ops) |->
      IF UpdateMatches(ops[k], id)
      THEN [ ops[k] EXCEPT !.status = status, !.details = details ]
      ELSE ops[k] ]

----------------------------------------------------------------------------
(* useFileOperations.simulateFileOperation                                 *)

\* items[i].name || items[i].path || 'item'
ItemLabel(item) ==
  IF "name" \in DOMAIN item /\ item.name # "" THEN item.name
  ELSE IF "path" \in DOMAIN item /\ item.path # "" THEN item.path
  ELSE "item"

BatchMessage(k, items) ==
  "Processing " \o NumToString(k) \o "/" \o NumToString(Len(items)) \o ": "
    \o ItemLabel(items[k])

NoResult == [ returned |-> FALSE ]

SuccessResult(items) ==
  [ returned |-> TRUE, success |-> TRUE, processedCount |-> Len(items) ]

FailureResult(error) ==
  [ returned |-> TRUE, success |-> FALSE, error |-> error ]

\* the closure of one call: lines 73-84.  throwsAt: the calls of onProgress that
\* throw; caller: the handler awaiting the result; closure: what that handler
\* captured when it was invoked.
NewBatch(type, items, throwsAt, t, caller, closure) ==
  [ operationType   |-> type,
    items           |-> items,
    throwsAt        |-> throwsAt,
    operationId     |-> NumToString(t),
    i               |-> 0,
    events          |-> <<>>,
    result          |-> NoResult,
    caller          |-> caller,
    closure         |-> closure,
    cancelRequested |-> FALSE ]

\* lines 96-101 and 108-110: the loop is over
BatchSucceed(b) == [ b EXCEPT !.result = SuccessResult(b.items) ]

\* lines 102-110: something inside the try block threw
BatchFail(b, error) == [ b EXCEPT !.result = FailureResult(error) ]

\* After the timer of item b.i + 1 (line 88): lines 90-94, then the loop test.
BatchAfterTimer(b) ==
  LET k    == b.i + 1
      sent == [ b EXCEPT !.events = Append(b.events,
                            [ progress |-> Percent(k, Len(b.items)),
                              message  |-> BatchMessage(k, b.items) ]) ]
  IN  IF k \in b.throwsAt THEN BatchFail(sent, "onProgress threw")
      ELSE IF k = Len(b.items) THEN BatchSucceed([ sent EXCEPT !.i = k ])
      ELSE [ sent EXCEPT !.i = k ]

\* a history in which the record of a failed batch is left as it is
OperationsAfter_ErrorLeftPending(ops, b) ==
  IF b.result.returned /\ b.result.success
  THEN updateOperation(ops, b.operationId, "success",
         "Successfully processed " \o NumToString(Len(b.items)) \o " items")
  ELSE ops

\* the operation history after the step that took the batch to b
OperationsAfter(ops, b) ==
  IF ~b.result.returned THEN ops
  ELSE IF b.result.success
       THEN updateOperation(ops, b.operationId, "success",
              "Successfully processed " \o NumToString(Len(b.items)) \o " items")
       ELSE updateOperation(ops, b.operationId, "error",
              "Failed: " \o b.result.error)

\* the synchronous part of a call, up to the first await (or to the end when
\* there is no item)
BatchStarted(b) == IF Len(b.items) = 0 THEN BatchSucceed(b) ELSE b

----------------------------------------------------------------------------
(* SmartOrganizeTab.organizeAssignedFiles / createOrganizedPackage         *)

HasAssignedFile(slot) == slot.assignedFile # NoFile

\* a plan that lists the assigned slots last to first
Assignments_Reversed(sh, slotArray) ==
  LET kept == SelectSeq(slotArray, LAMBDA a : HasAssignedFile(sh[a]))
  IN  [ j \in 1..Len(kept) |->
          [ source |-> sh[kept[Len(kept) + 1 - j]].assignedFile,
            target |-> sh[kept[Len(kept) + 1 - j]].path ] ]

\* targetSlots.filter(slot => slot.assignedFile).map(slot => ({source, target}))
Assignments(sh, slotArray) ==
  LET kept == SelectSeq(slotArray, LAMBDA a : HasAssignedFile(sh[a]))
  IN  [ j \in 1..Len(kept) |->
          [ source |-> sh[kept[j]].assignedFile, target |-> sh[kept[j]].path ] ]

\* assignments.find(a => a.source.id === file.id)
IsPlanSource(fh, assignments, file) ==
  \E j \in 1..Len(assignments) : fh[assignments[j].source].id = file.id

\* stagedFiles.map(file => assignment ? { ...file, status: 'organized' } : file)
\* on the array the handler captured; every copy is a new object
RECURSIVE MarkOrganized(_, _, _)
MarkOrganized(fh, files, assignments) ==
  IF files = <<>> THEN [ fh |-> fh, files |-> <<>> ]
  ELSE LET a    == Head(files)
           hit  == IsPlanSource(fh, assignments, fh[a])
           fh1  == IF hit
                   THEN Append(fh, [ fh[a] EXCEPT !.status = "organized" ])
                   ELSE fh
           rest == MarkOrganized(fh1, Tail(files), assignments)
       IN  [ fh    |-> rest.fh,
             files |-> << IF hit THEN Len(fh1) ELSE a >> \o rest.files ]

\* click on "Organize Files" (caller = "organize") or "Create Package"
\* (caller = "package"): lines 621-647 / 666-691 and the hook's lines 73-88
StartTabBatch(caller, type, message) ==
  LET assignments == Assignments(slotHeap, targetSlots)
  IN  /\ Len(assignments) # 0
      /\ UserGesture
      /\ showProgress' = TRUE
      /\ progress' = Percent(0, 1)
      /\ progressMessage' = message
      /\ isProcessing' = TRUE
      /\ \E t \in ClockReads :
           /\ now' = t
           /\ operations' =
                HookAddOperation(operations, t, type,
                  "Processing " \o NumToString(Len(assignments)) \o " items",
                  "pending")
           /\ batches' = Append(batches,
                NewBatch(type, assignments, {}, t, caller, stagedFiles))
      /\ UNCHANGED << fileHeap, stagedFiles, targetStructure, slotHeap,
                      targetSlots, passes, dirOperations, runs, builds >>

organizeAssignedFiles ==
  StartTabBatch("organize", "organize_copy", "Organizing files...")

createOrganizedPackage ==
  StartTabBatch("package", "create_package", "Creating package...")

\* what the awaiting handler does with the result: lines 649-663 / 693-700
TabContinuation(b) ==
  /\ showProgress' = FALSE
  /\ IF b.caller = "organize" /\ b.result.success
     THEN LET m == MarkOrganized(fileHeap, b.closure, b.items)
          IN  fileHeap' = m.fh /\ stagedFiles' = m.files
     ELSE UNCHANGED << fileHeap, stagedFiles >>

\* a timer of simulateFileOperation fires (line 88); the batch runs to its next
\* await, or to its end and on into the handler that awaits it
batchTimer(k) ==
  /\ ~batches[k].result.returned
  /\ LET b == BatchAfterTimer(batches[k])
         e == b.events[Len(b.events)]
     IN  /\ batches' = [ batches EXCEPT ![k] =
                           IF b.result.returned THEN [ b EXCEPT !.closure = <<>> ]
                           ELSE b ]
         /\ operations' = OperationsAfter(operations, b)
         /\ isProcessing' = IF b.result.returned THEN FALSE ELSE isProcessing
         /\ IF b.caller = "client"
            THEN UNCHANGED << progress, progressMessage, showProgress,
                              fileHeap, stagedFiles >>
            ELSE /\ progress' = e.progress
                 /\ progressMessage' = e.message
                 /\ IF b.result.returned
                    THEN TabContinuation(b)
                    ELSE UNCHANGED << showProgress, fileHeap, stagedFiles >>
  /\ UNCHANGED << now, targetStructure, slotHeap, targetSlots, passes,
                  dirOperations, clicks, runs, builds >>

\* ProgressDialog onCancel={() => setShowProgress(false)}
onCancel ==
  /\ showProgress
  /\ UserGesture
  /\ showProgress' = FALSE
  /\ batches' = [ k \in 1..Len(batches) |->
                    IF ~batches[k].result.returned /\ batches[k].caller # "client"
                    THEN [ batches[k] EXCEPT !.cancelRequested = TRUE ]
                    ELSE batches[k] ]
  /\ UNCHANGED << now, fileHeap, stagedFiles, targetStructure, slotHeap,
                  targetSlots, progress, progressMessage, passes, dirOperations,
                  operations, isProcessing, runs, builds >>

----------------------------------------------------------------------------
(* The tab as a state machine                                              *)

Init ==
  /\ now = 0
  /\ fileHeap = <<>>
  /\ stagedFiles = <<>>
  /\ targetStructure = ""
  /\ slotHeap = <<>>
  /\ targetSlots = <<>>
  /\ showProgress = FALSE
  /\ progress = Percent(0, 1)
  /\ progressMessage = ""
  /\ passes = <<>>
  /\ dirOperations = <<>>
  /\ operations = <<>>
  /\ isProcessing = FALSE
  /\ batches = <<>>
  /\ clicks = 0
  /\ runs = <<>>
  /\ builds = <<>>

Next ==
  \/ addFilesToStage
  \/ \E d \in Definitions : buildTargetStructure(d)
  \/ autoAssignFiles
  \/ \E k \in 1..Len(passes) : autoAssignStep(k)
  \/ \E k \in 1..Len(passes) : autoAssignFinish(k)
  \/ organizeAssignedFiles
  \/ createOrganizedPackage
  \/ \E k \in 1..Len(batches) : batchTimer(k)
  \/ onCancel

Spec == Init /\ [][Next]_vars

----------------------------------------------------------------------------
(* useFileOperations used directly: createStructure, moveFiles,            *)
(* organizeFiles, createPackage called by any client component, with the   *)
(* client's own onProgress callback; undoLastOperation                     *)

FileItem(name) == [ name |-> name, path |-> "/files/" \o name ]

\* the (operationType, items) pairs the four entry points pass on: lines 113-144
ClientCalls ==
  { [ type  |-> "move_files",
      items |-> << FileItem("a.txt"), FileItem("b.txt") >> ],
    [ type  |-> "create_structure",
      items |-> parseStructureDefinition("docs/\n  report.pdf\n  notes.md") ],
    [ type  |-> "create_structure",
      items |-> parseStructureDefinition("# nothing yet") ],
    [ type  |-> "organize_copy",
      items |-> << [ source |-> FileItem("a.txt"), target |-> "docs/a.txt" ],
                   [ source |-> FileItem("b.txt"), target |-> "docs/b.txt" ] >> ] }

\* the calls of onProgress that throw: none, or one of them
ThrowSets(n) == { {} } \cup { {k} : k \in 1..n }

\* lines 73-111, called with one of the given (operationType, items) pairs
simulateFileOperationOf(calls) ==
  /\ Len(operations) < MaxHookOps
  /\ \E call \in calls, t \in ClockReads :
       \E throwsAt \in ThrowSets(Len(call.items)) :
         LET b == BatchStarted(
                    NewBatch(call.type, call.items, throwsAt, t, "client", <<>>))
         IN  /\ now' = t
             /\ batches' = Append(batches, b)
             /\ operations' =
                  OperationsAfter(
                    HookAddOperation(operations, t, call.type,
                      "Processing " \o NumToString(Len(call.items)) \o " items",
                      "pending"), b)
             /\ isProcessing' = ~b.result.returned
  /\ UNCHANGED << tabVars, pureVars >>

simulateFileOperation == simulateFileOperationOf(ClientCalls)

\* lines 163-175
undoLastOperation ==
  /\ Len(operations) < MaxHookOps
  /\ \E k \in 1..Len(operations) :
       /\ operations[k].status = "success"
       /\ \A m \in 1..(k - 1) : operations[m].status # "success"
       /\ \E t \in ClockReads :
            /\ now' = t
            /\ operations' =
                 HookAddOperation(operations, t, "undo",
                   "Undoing: " \o operations[k].type, "success")
  /\ UNCHANGED << isProcessing, batches, tabVars, pureVars >>

NextBatch ==
  \/ simulateFileOperation
  \/ \E k \in 1..Len(batches) : batchTimer(k)
  \/ undoLastOperation

SpecBatch == Init /\ [][NextBatch]_vars

\* the calls with several items and with none
TimedCalls ==
  { call \in ClientCalls : call.type = "move_files" \/ call.items = << >> }

NextTimed ==
  \/ simulateFileOperationOf(TimedCalls)
  \/ \E k \in 1..Len(batches) : batchTimer(k)
  \/ undoLastOperation

\* the timers of simulateFileOperation (setTimeout, line 88) always fire
SpecBatchFair ==
  /\ Init /\ [][NextTimed]_vars
  /\ WF_vars(\E k \in 1..Len(batches) : batchTimer(k))

----------------------------------------------------------------------------
(* The auto-match loop on given inputs: every run owns a copy of the slot  *)
(* objects and of the pool, and applies the loop body of autoAssignFiles   *)
(* (PassIteration) slot by slot.  Two runs start from identical inputs.    *)

\* Definitions given to the functions checked on their own
AllDefinitions ==
  Definitions \cup
  { "# plan\n\nc.pdf\n  A.JPG",
    "notes.doc\nimage_1.jpg\n",
    "src/\n\tmain.ts\n# done",
    "/\n# top\nREADME",
    "docs//\n \tx.txt",
    "report.pdf\n b.txt\n   c.md\n      d/" }

\* the staging pool after n calls of addFilesToStage two milliseconds apart
RECURSIVE StagedPool(_)
StagedPool(n) ==
  IF n = 0 THEN <<>>
  ELSE LET pool == StagedPool(n - 1)
       IN  pool \o NewStagedFiles(2 * (n - 1), Len(pool))

\* The TargetSlot type (line 488) admits the status 'assigned' of a manual
\* assignment; no handler of the tab sets it.  A run's input may hold one slot
\* in that state, linked to a file of the pool as the type describes.
ManuallyAssigned(slots, pool, j, f) ==
  [ sh |-> [ slots EXCEPT ![j] = [ slots[j] EXCEPT !.status = "assigned",
                                                   !.assignedFile = f ] ],
    fh |-> [ pool EXCEPT ![f] = [ pool[f] EXCEPT !.status = "assigned",
                                                 !.targetPath = slots[j].path ] ] ]

MatchInputs ==
  UNION { LET slots == BuildSlots(d)
              pool  == StagedPool(n)
          IN  { [ sh |-> slots, fh |-> pool ] } \cup
              { ManuallyAssigned(slots, pool, j, f) :
                  j \in 1..Len(slots), f \in 1..Len(pool) }
          : d \in AllDefinitions, n \in 0..MaxAdds }

NewRun(input) ==
  [ sh0 |-> input.sh,
    fh0 |-> input.fh,
    sh  |-> input.sh,
    fh  |-> input.fh,
    called |-> FALSE,
    alert  |-> "",
    p   |-> [ updatedSlots  |-> [ j \in 1..Len(input.sh) |-> j ],
              updatedFiles  |-> [ f \in 1..Len(input.fh) |-> f ],
              i             |-> 0,
              assignedCount |-> 0 ] ]

RunDone(run) == run.p.i = Len(run.p.updatedSlots)

InitMatch ==
  /\ now = 0
  /\ fileHeap = <<>>
  /\ stagedFiles = <<>>
  /\ targetStructure = ""
  /\ slotHeap = <<>>
  /\ targetSlots = <<>>
  /\ showProgress = FALSE
  /\ progress = Percent(0, 1)
  /\ progressMessage = ""
  /\ passes = <<>>
  /\ dirOperations = <<>>
  /\ operations = <<>>
  /\ isProcessing = FALSE
  /\ batches = <<>>
  /\ clicks = 0
  /\ builds = <<>>
  /\ \E input \in MatchInputs : runs = << NewRun(input), NewRun(input) >>

\* the handler of run r is called: lines 561-575
matchCall(r) ==
  /\ ~runs[r].called
  /\ runs' = [ runs EXCEPT ![r] =
                 [ runs[r] EXCEPT
                     !.called = TRUE,
                     !.alert  = AutoAssignEntry(runs[r].p.updatedFiles,
                                                runs[r].p.updatedSlots) ] ]
  /\ UNCHANGED << tabVars, hookVars, builds >>

\* one iteration of the loop of run r: lines 576-595; after the last one the
\* handler alerts its count (line 613)
matchStep(r) ==
  /\ runs[r].called /\ runs[r].alert = ""
  /\ ~RunDone(runs[r])
  /\ \E rnd \in Randoms(runs[r].sh, runs[r].fh, runs[r].p) :
       LET it == PassIteration(runs[r].sh, runs[r].fh, runs[r].p, rnd)
       IN  runs' = [ runs EXCEPT ![r] =
                       [ runs[r] EXCEPT
                           !.sh = it.sh, !.fh = it.fh, !.p = it.p,
                           !.alert = IF it.p.i = Len(it.p.updatedSlots)
                                     THEN DoneAlert(it.p.assignedCount)
                                     ELSE "" ] ]
  /\ UNCHANGED << tabVars, hookVars, builds >>

NextMatch ==
  \/ \E r \in 1..Len(runs) : matchCall(r)
  \/ \E r \in 1..Len(runs) : matchStep(r)

SpecMatch == InitMatch /\ [][NextMatch]_vars

----------------------------------------------------------------------------
(* The tab without its batch operations.  organizeAssignedFiles,           *)
(* createOrganizedPackage, the batch timers and onCancel write neither a   *)
(* slot nor targetSlots; the slots are written by the handlers below only. *)

NextAssign ==
  \/ clicks < MaxAssignClicks /\ addFilesToStage
  \/ clicks < MaxAssignClicks /\ \E d \in Definitions : buildTargetStructure(d)
  \/ clicks < MaxAssignClicks /\ autoAssignFiles
  \/ \E k \in 1..Len(passes) : autoAssignStep(k)
  \/ \E k \in 1..Len(passes) : autoAssignFinish(k)

SpecAssign == Init /\ [][NextAssign]_vars

\* the same handlers together with the organize and package batches
NextOrganize ==
  \/ NextAssign
  \/ clicks < MaxAssignClicks /\ organizeAssignedFiles
  \/ clicks < MaxAssignClicks /\ createOrganizedPackage
  \/ \E k \in 1..Len(batches) : batchTimer(k)
  \/ clicks < MaxAssignClicks /\ onCancel

SpecOrganize == Init /\ [][NextOrganize]_vars

----------------------------------------------------------------------------
(* buildTargetStructure and parseStructureDefinition on given definitions  *)

NewBuild(definition) ==
  [ definition |-> definition,
    built      |-> FALSE,
    slots      |-> <<>>,
    parsed     |-> FALSE,
    nodes      |-> <<>> ]

InitBuild ==
  /\ now = 0
  /\ fileHeap = <<>>
  /\ stagedFiles = <<>>
  /\ targetStructure = ""
  /\ slotHeap = <<>>
  /\ targetSlots = <<>>
  /\ showProgress = FALSE
  /\ progress = Percent(0, 1)
  /\ progressMessage = ""
  /\ passes = <<>>
  /\ dirOperations = <<>>
  /\ operations = <<>>
  /\ isProcessing = FALSE
  /\ batches = <<>>
  /\ clicks = 0
  /\ runs = <<>>
  /\ \E d1 \in AllDefinitions, d2 \in AllDefinitions :
       builds = << NewBuild(d1), NewBuild(d2) >>

\* lines 533-553 of SmartOrganizeTab on the definition of build r
buildStep(r) ==
  /\ ~builds[r].built
  /\ ~DefinitionIsBlank(builds[r].definition)
  /\ builds' = [ builds EXCEPT ![r] =
                   [ builds[r] EXCEPT !.built = TRUE,
                                      !.slots = BuildSlots(builds[r].definition) ] ]
  /\ UNCHANGED << tabVars, hookVars, runs >>

\* a parser whose items array outlives the call: the nodes of the earlier
\* parses come back in front of the new ones
parseStep_SharedItems(r) ==
  /\ ~builds[r].parsed
  /\ LET earlier == IF \E q \in 1..Len(builds) : builds[q].parsed
                    THEN builds[CHOOSE q \in 1..Len(builds) : builds[q].parsed].nodes
                    ELSE <<>>
     IN  builds' = [ builds EXCEPT ![r] =
                       [ builds[r] EXCEPT
                           !.parsed = TRUE,
                           !.nodes = earlier \o
                             parseStructureDefinition(builds[r].definition) ] ]
  /\ UNCHANGED << tabVars, hookVars, runs >>

\* parseStructureDefinition on the definition of build r
parseStep(r) ==
  /\ ~builds[r].parsed
  /\ builds' = [ builds EXCEPT ![r] =
                   [ builds[r] EXCEPT
                       !.parsed = TRUE,
                       !.nodes = parseStructureDefinition(builds[r].definition) ] ]
  /\ UNCHANGED << tabVars, hookVars, runs >>

NextBuild ==
  \/ \E r \in 1..Len(builds) : buildStep(r)
  \/ \E r \in 1..Len(builds) : parseStep(r)

SpecBuild == InitBuild /\ [][NextBuild]_vars

----------------------------------------------------------------------------
(* Claims                                                                  *)

AssignedSlots == { j \in 1..Len(targetSlots) : HasAssignedFile(slotHeap[targetSlots[j]]) }

AssignedFileId(j) == fileHeap[slotHeap[targetSlots[j]].assignedFile].id

\* C1 -- Assignment exclusivity: in every reachable state of the tab, a source
\* file id is the assignedFile of at most one slot of the current skeleton.
C1_AssignmentExclusive ==
  \A j \in AssignedSlots, k \in AssignedSlots :
    j # k => AssignedFileId(j) # AssignedFileId(k)

\* C2 -- Manual-override stickiness: a slot that is manually Assigned in the
\* input of an auto-match run has the same status, assignedFile and confidence
\* at every point of the run.
C2_ManualAssignmentSticky ==
  \A r \in 1..Len(runs) : \A j \in 1..Len(runs[r].sh0) :
    runs[r].sh0[j].status = "assigned" =>
      /\ runs[r].sh[j].status = runs[r].sh0[j].status
      /\ runs[r].sh[j].assignedFile = runs[r].sh0[j].assignedFile
      /\ runs[r].sh[j].confidence = runs[r].sh0[j].confidence

\* a run has visited a manually assigned slot while the pool held a staged
\* file that the slot's extension accepts
C2_Witness ==
  \E r \in 1..Len(runs) : \E j \in 1..Len(runs[r].sh0) :
    /\ runs[r].sh0[j].status = "assigned"
    /\ runs[r].p.i >= j
    /\ \E f \in 1..Len(runs[r].fh) :
         FileMatches(runs[r].fh[f], TargetExt(runs[r].sh0[j].path))

OrganizeBatches ==
  { k \in 1..Len(batches) : batches[k].operationType = "organize_copy" }

\* C3 -- No-collision output: the target paths of the items of an executed
\* organize batch are pairwise distinct.
C3_NoCollisionOutput ==
  \A k \in OrganizeBatches :
    batches[k].result.returned =>
      \A x \in 1..Len(batches[k].items), y \in 1..Len(batches[k].items) :
        x # y => batches[k].items[x].target # batches[k].items[y].target

\* C4 -- Partial-failure containment: a batch in which the processing of
\* exactly one of the N items fails goes on with the next item and ends with
\* N - 1 items succeeded and 1 failed.
C4_PartialFailureContained ==
  \A k \in 1..Len(batches) :
    (batches[k].result.returned /\ Cardinality(batches[k].throwsAt) = 1) =>
      /\ Len(batches[k].events) = Len(batches[k].items)
      /\ ~batches[k].result.success
      /\ batches[k].i = Len(batches[k].items) - 1

\* C5 -- Cancellation: once cancellation is signalled to a running batch, no
\* further item is processed and no further progress event is emitted.
C5_CancelStopsBatch ==
  [][ \A k \in 1..Len(batches) :
        (batches[k].cancelRequested /\ ~batches[k].result.returned) =>
          /\ batches'[k].i = batches[k].i
          /\ batches'[k].events = batches[k].events ]_vars

\* the strings that name an item handed to simulateFileOperation
C6_ItemNames(item) ==
  IF "source" \in DOMAIN item
  THEN { item.source.name, item.source.path, item.target }
  ELSE { item.name, item.path }

\* C6 -- Progress protocol: in a batch none of whose callbacks throws, the k-th
\* progress event carries percent (k / N) * 100 and a message naming the k-th
\* item, and the result is produced only after the N-th event.
C6_ProgressProtocol ==
  \A b \in 1..Len(batches) :
    batches[b].throwsAt = {} =>
      /\ \A k \in 1..Len(batches[b].events) :
           /\ batches[b].events[k].progress = Percent(k, Len(batches[b].items))
           /\ \E n \in C6_ItemNames(batches[b].items[k]) :
                Includes(batches[b].events[k].message, n)
      /\ batches[b].result.returned =>
           Len(batches[b].events) = Len(batches[b].items)

\* C7 -- When the processing of an item fails, simulateFileOperation returns a
\* structured result and the operation record of the batch (the record with the
\* batch's operation id) moves from pending to error.
C7_FailureMovesPendingToError ==
  [][ \A b \in 1..Len(batches) :
        ( /\ ~batches[b].result.returned
          /\ batches'[b].result.returned
          /\ ~batches'[b].result.success ) =>
          \A j \in 1..Len(operations) :
            operations[j].id = batches[b].operationId =>
              /\ operations[j].status = "pending"
              /\ operations'[j].status = "error" ]_vars

\* C8 -- Deterministic matching: two auto-match runs on identical slots and
\* pool end with the same file and the same confidence on every slot.
C8_DeterministicMatching ==
  (Len(runs) = 2 /\ RunDone(runs[1]) /\ RunDone(runs[2])) =>
    \A j \in 1..Len(runs[1].sh) :
      /\ runs[1].sh[j].assignedFile = runs[2].sh[j].assignedFile
      /\ runs[1].sh[j].confidence = runs[2].sh[j].confidence

\* C9 -- Slot uniqueness: no two slots of a built skeleton share an id.
C9_SlotIdsUnique ==
  \A r \in 1..Len(builds) :
    \A j \in 1..Len(builds[r].slots), k \in 1..Len(builds[r].slots) :
      j # k => builds[r].slots[j].id # builds[r].slots[k].id

\* a skeleton was built from a definition that holds the same file token twice
C9_Witness ==
  \E r \in 1..Len(builds) :
    /\ builds[r].built
    /\ \E j \in 1..Len(builds[r].slots), k \in 1..Len(builds[r].slots) :
         j # k /\ builds[r].slots[j].path = builds[r].slots[k].path

C10_LineIndexOfSlot(definition, j) ==
  LET lines == SelectSeq(Split(definition, "\n"), NonBlank)
      from  == { i \in 1..Len(lines) :
                   LET t == Trim(lines[i])
                   IN  ~StartsWith(t, "#") /\ ~EndsWith(t, "/") }
  IN  (CHOOSE i \in from : Cardinality({ m \in from : m <= i }) = j) - 1

----------------------------------------------------------------------------
(* Claims on the parser and the builder                                    *)

IsFileNode(node) == node.type = "file"

\* C11 -- the slots built from a definition are, in order and with equal
\* paths, the File nodes that parseStructureDefinition returns for it; a
\* Directory node has no slot.
C11_SlotsAreFileNodes ==
  \A r \in 1..Len(builds) :
    (builds[r].built /\ builds[r].parsed) =>
      LET files == SelectSeq(builds[r].nodes, IsFileNode)
      IN  /\ Len(builds[r].slots) = Len(files)
          /\ \A j \in 1..Len(files) : builds[r].slots[j].path = files[j].path

\* a definition with a directory line and a file line was built and parsed
C11_Witness ==
  \E r \in 1..Len(builds) :
    /\ builds[r].built /\ builds[r].parsed
    /\ builds[r].slots # <<>>
    /\ \E k \in 1..Len(builds[r].nodes) : builds[r].nodes[k].type = "directory"

CountedLine(line) ==
  LET t == Trim(line) IN t # "" /\ Char(t, 1) # "#"

\* a counted line that has a name in front of its separator
NamedLine(line) == CountedLine(line) /\ Trim(line) # "/"

\* the token a node stands for: its name, with the separator of a directory
NodeToken(node) ==
  IF node.type = "directory" THEN node.name \o "/" ELSE node.name

\* C16 as claimed -- the parser emits, in line order, exactly one node for each
\* line that is neither empty after trimming nor a comment.
C16_OneNodePerCountedLine ==
  \A r \in 1..Len(builds) :
    builds[r].parsed =>
      LET lines == SelectSeq(Split(builds[r].definition, "\n"), CountedLine)
      IN  /\ Len(builds[r].nodes) = Len(lines)
          /\ \A k \in 1..Len(lines) :
               NodeToken(builds[r].nodes[k]) = Trim(lines[k])

\* C16 as amended -- the parser emits, in line order, exactly one node for each
\* line that is neither empty after trimming, nor a comment, nor the bare
\* separator "/"; every other line yields no node.
C16_OneNodePerNamedLine ==
  \A r \in 1..Len(builds) :
    builds[r].parsed =>
      LET lines == SelectSeq(Split(builds[r].definition, "\n"), NamedLine)
      IN  /\ Len(builds[r].nodes) = Len(lines)
          /\ \A k \in 1..Len(lines) :
               NodeToken(builds[r].nodes[k]) = Trim(lines[k])

\* a parsed definition holds a bare "/" line, a comment line and a named line
C16_Witness ==
  \E r \in 1..Len(builds) :
    LET lines == Split(builds[r].definition, "\n")
    IN  /\ builds[r].parsed
        /\ builds[r].nodes # <<>>
        /\ \E k \in 1..Len(lines) : Trim(lines[k]) = "/"
        /\ \E k \in 1..Len(lines) : StartsWith(Trim(lines[k]), "#")

\* the lines of a definition that the nodes of its parse come from, in order
NodeLines(definition) == SelectSeq(Split(definition, "\n"), NamedLine)

\* C17 -- Directory marking: a node is a Directory exactly when the trimmed
\* token of its line ends with "/", and neither the name nor the path of a
\* node ends with "/".
C17_DirectoryMarking ==
  \A r \in 1..Len(builds) :
    builds[r].parsed =>
      \A k \in 1..Len(builds[r].nodes) :
        /\ (builds[r].nodes[k].type = "directory")
             <=> EndsWith(Trim(NodeLines(builds[r].definition)[k]), "/")
        /\ ~EndsWith(builds[r].nodes[k].name, "/")
        /\ ~EndsWith(builds[r].nodes[k].path, "/")

\* C18 -- Flat paths: the path of a node equals its name and is the trimmed
\* token of its own line without the separator, whatever the depth of the
\* node and the lines before it.
C18_FlatPaths ==
  \A r \in 1..Len(builds) :
    builds[r].parsed =>
      \A k \in 1..Len(builds[r].nodes) :
        LET node == builds[r].nodes[k]
        IN  /\ node.path = node.name
            /\ (IF node.type = "directory" THEN node.path \o "/" ELSE node.path)
                 = Trim(NodeLines(builds[r].definition)[k])

\* the same token was parsed at two depths
C18_Witness ==
  \E r \in 1..Len(builds), q \in 1..Len(builds) :
    /\ builds[r].parsed /\ builds[q].parsed
    /\ \E j \in 1..Len(builds[r].nodes), k \in 1..Len(builds[q].nodes) :
         /\ builds[r].nodes[j].path = builds[q].nodes[k].path
         /\ builds[r].nodes[j].depth # builds[q].nodes[k].depth

\* the number of white-space characters in front of a line
RECURSIVE LeadingWhiteSpace(_)
LeadingWhiteSpace(line) ==
  IF Len(line) > 0 /\ Char(line, 1) \in {" ", "\t", "\r"}
  THEN 1 + LeadingWhiteSpace(SubSeq(line, 2, Len(line)))
  ELSE 0

\* C19 -- the depth of a node is floor(n / 2), n the number of leading
\* white-space characters of its line, a tab counting as one character.
C19_DepthIsHalfLeading ==
  \A r \in 1..Len(builds) :
    builds[r].parsed =>
      \A k \in 1..Len(builds[r].nodes) :
        LET n == LeadingWhiteSpace(NodeLines(builds[r].definition)[k])
            d == builds[r].nodes[k].depth
        IN  2 * d <= n /\ n < 2 * d + 2

\* parsed lines with a tab among two leading characters and with an odd
\* number (3) of leading spaces
C19_Witness ==
  /\ \E r \in 1..Len(builds) :
       /\ builds[r].parsed
       /\ \E k \in 1..Len(builds[r].nodes) :
            LET line == NodeLines(builds[r].definition)[k]
            IN  /\ LeadingWhiteSpace(line) = 2
                /\ Includes(SubSeq(line, 1, 2), "\t")
                /\ builds[r].nodes[k].depth = 1
  /\ \E r \in 1..Len(builds) :
       /\ builds[r].parsed
       /\ \E k \in 1..Len(builds[r].nodes) :
            /\ LeadingWhiteSpace(NodeLines(builds[r].definition)[k]) = 3
            /\ builds[r].nodes[k].depth = 1

----------------------------------------------------------------------------
(* Claims on the slots of the tab                                          *)

\* the step is a completed buildTargetStructure: its record heads the log
BuildCompletes ==
  /\ Len(dirOperations') = Len(dirOperations) + 1
  /\ dirOperations'[1].operation = "build_target_structure"

\* C12 -- Rebuild discards assignments: whatever the state before, right after
\* buildTargetStructure completes on a non-blank definition every slot of the
\* skeleton is Empty without assignedFile and confidence, and no slot of the
\* previous skeleton is in it.
C12_RebuildDiscards ==
  [][ BuildCompletes =>
        /\ \A j \in 1..Len(targetSlots') :
             /\ slotHeap'[targetSlots'[j]].status = "empty"
             /\ slotHeap'[targetSlots'[j]].assignedFile = NoFile
             /\ slotHeap'[targetSlots'[j]].confidence = NoConfidence
        /\ \A j \in 1..Len(targetSlots'), k \in 1..Len(targetSlots) :
             targetSlots'[j] # targetSlots[k] ]_vars

\* a skeleton has just been rebuilt over one that held an assignment
C12_Witness ==
  /\ dirOperations # <<>>
  /\ dirOperations[1].operation = "build_target_structure"
  /\ targetSlots # <<>>
  /\ \E a \in 1..Len(slotHeap) :
       /\ slotHeap[a].assignedFile # NoFile
       /\ \A j \in 1..Len(targetSlots) : targetSlots[j] # a

\* C13 -- Slot well-formedness: a slot has an assignedFile exactly when its
\* status is auto-matched or assigned, and a confidence exactly when its status
\* is auto-matched.
C13_SlotWellFormed ==
  \A a \in 1..Len(slotHeap) :
    /\ (slotHeap[a].assignedFile # NoFile)
         <=> (slotHeap[a].status \in {"auto-matched", "assigned"})
    /\ (slotHeap[a].confidence # NoConfidence)
         <=> (slotHeap[a].status = "auto-matched")

\* a skeleton holds an auto-matched slot next to an empty one
C13_Witness ==
  /\ \E j \in 1..Len(targetSlots) : slotHeap[targetSlots[j]].status = "auto-matched"
  /\ \E j \in 1..Len(targetSlots) : slotHeap[targetSlots[j]].status = "empty"

\* C14 -- the confidence of every auto-matched slot is a score in [0, 1].
C14_ConfidenceInUnitRange ==
  \A r \in 1..Len(runs) : \A j \in 1..Len(runs[r].sh) :
    runs[r].sh[j].status = "auto-matched" =>
      (0 <= runs[r].sh[j].confidence /\ runs[r].sh[j].confidence <= 1)

\* C20 -- auto-matching called with an empty pool or an empty slot set raises
\* no error and makes no assignment: every slot and every staged file stays as
\* it was.
C20_EmptyInputsNoEffect ==
  \A r \in 1..Len(runs) :
    (Len(runs[r].fh0) = 0 \/ Len(runs[r].sh0) = 0) =>
      /\ runs[r].alert # "Auto-assignment failed"
      /\ runs[r].p.assignedCount = 0
      /\ runs[r].sh = runs[r].sh0
      /\ runs[r].fh = runs[r].fh0

\* the handler was called with slots and an empty pool
C20_Witness ==
  \E r \in 1..Len(runs) :
    /\ runs[r].called
    /\ Len(runs[r].fh0) = 0
    /\ Len(runs[r].sh0) > 0

----------------------------------------------------------------------------
(* Claims on the matching of one pass                                      *)

\* the slot accepts the file: the lower-cased file name holds the slot's
\* lower-cased extension
Accepts(slot, file) == Includes(ToLowerCase(file.name), TargetExt(slot.path))

\* slot j of the run was open at the start and has been visited
VisitedOpenSlot(run, j) == j <= run.p.i /\ run.sh0[j].status = "empty"

\* file g of the run was taken by a slot in front of slot j
TakenBefore(run, g, j) ==
  \E k \in 1..(j - 1) : run.sh0[k].status = "empty" /\ run.sh[k].assignedFile = g

\* C21 -- Greedy in-order matching: a pass visits the slots in skeleton order,
\* no file is given to two slots, and every visited open slot holds the
\* earliest-inserted acceptable staged file that no earlier slot took (none
\* when there is no such file).
C21_GreedyInOrder ==
  \A r \in 1..Len(runs) :
    LET run == runs[r]
    IN  /\ \A j \in 1..Len(run.sh) : j > run.p.i => run.sh[j] = run.sh0[j]
        /\ \A j \in 1..Len(run.sh), k \in 1..Len(run.sh) :
             (j # k /\ run.sh[j].assignedFile # NoFile) =>
               run.sh[j].assignedFile # run.sh[k].assignedFile
        /\ \A j \in 1..Len(run.sh) :
             VisitedOpenSlot(run, j) =>
               LET f == run.sh[j].assignedFile
                   free == { g \in 1..Len(run.fh0) :
                               /\ run.fh0[g].status = "staged"
                               /\ Accepts(run.sh0[j], run.fh0[g])
                               /\ ~TakenBefore(run, g, j) }
               IN  IF free = {} THEN f = NoFile
                   ELSE f \in free /\ \A g \in free : f <= g

\* a finished run gave two acceptable files to two slots of one extension, in
\* pool order
C21_Witness ==
  \E r \in 1..Len(runs) :
    /\ RunDone(runs[r]) /\ runs[r].alert # ""
    /\ \E j \in 1..Len(runs[r].sh), k \in 1..Len(runs[r].sh) :
         /\ j < k
         /\ runs[r].sh0[j].status = "empty" /\ runs[r].sh0[k].status = "empty"
         /\ runs[r].sh[j].assignedFile # NoFile
         /\ runs[r].sh[k].assignedFile # NoFile
         /\ runs[r].sh[j].assignedFile < runs[r].sh[k].assignedFile
         /\ Accepts(runs[r].sh0[j], runs[r].fh0[runs[r].sh[k].assignedFile])

\* the file name of a slot path: what follows its last "/"
C22_SlotFileName(path) == LET parts == Split(path, "/") IN parts[Len(parts)]

C22_SameName(slot, file) ==
  ToLowerCase(file.name) = ToLowerCase(C22_SlotFileName(slot.path))

\* C22 -- Exact-name matching: an open slot for which the pool holds a staged
\* file of the same name (case-insensitively) that no other slot took is
\* matched to a file of that name with confidence 1.0.
C22_ExactNameMatched ==
  \A r \in 1..Len(runs) :
    RunDone(runs[r]) =>
      \A j \in 1..Len(runs[r].sh) :
        ( /\ runs[r].sh0[j].status = "empty"
          /\ \E f \in 1..Len(runs[r].fh0) :
               /\ runs[r].fh0[f].status = "staged"
               /\ C22_SameName(runs[r].sh0[j], runs[r].fh0[f])
               /\ \A k \in 1..Len(runs[r].sh) :
                    k # j => runs[r].sh[k].assignedFile # f ) =>
          /\ runs[r].sh[j].assignedFile # NoFile
          /\ C22_SameName(runs[r].sh[j], runs[r].fh0[runs[r].sh[j].assignedFile])
          /\ runs[r].sh[j].confidence = 1

\* the extension of a name and what stands in front of it
C23_NameExt(name) == LET parts == Split(name, ".") IN ToLowerCase(parts[Len(parts)])

C23_NameStem(name) ==
  LET parts == Split(name, ".")
  IN  IF Len(parts) = 1 THEN ToLowerCase(name)
      ELSE ToLowerCase(SubSeq(name, 1, Len(name) - Len(parts[Len(parts)]) - 1))

\* two names are similar beyond the extension: their stems share a character
C23_SimilarStems(a, b) ==
  \E i \in 1..Len(C23_NameStem(a)), k \in 1..Len(C23_NameStem(b)) :
    Char(C23_NameStem(a), i) = Char(C23_NameStem(b), k)

\* C23 -- Extension-only candidates are not accepted: a pass assigns a file
\* to a slot only if the file has the slot's extension and its name is similar
\* to the slot's name beyond the extension.
C23_ExtensionOnlyNotAccepted ==
  \A r \in 1..Len(runs) : \A j \in 1..Len(runs[r].sh) :
    (runs[r].sh0[j].status = "empty" /\ runs[r].sh[j].assignedFile # NoFile) =>
      LET file == runs[r].fh0[runs[r].sh[j].assignedFile]
          name == C22_SlotFileName(runs[r].sh0[j].path)
      IN  /\ C23_NameExt(file.name) = C23_NameExt(name)
          /\ C23_SimilarStems(file.name, name)

----------------------------------------------------------------------------
(* Claims on the staging pool of the tab                                   *)

\* the slots of the current skeleton that hold the file object at address a
SlotsHolding(a) ==
  { j \in 1..Len(targetSlots) : slotHeap[targetSlots[j]].assignedFile = a }

\* C25 -- Slot-file link consistency: a staged file has status 'assigned' only
\* if exactly one slot of the current skeleton holds it as assignedFile, and
\* then its targetPath is the path of that slot.
C25_LinkConsistent ==
  \A k \in 1..Len(stagedFiles) :
    fileHeap[stagedFiles[k]].status = "assigned" =>
      /\ Cardinality(SlotsHolding(stagedFiles[k])) = 1
      /\ \A j \in SlotsHolding(stagedFiles[k]) :
           fileHeap[stagedFiles[k]].targetPath = slotHeap[targetSlots[j]].path

\* staged < assigned < organized
StatusRank(status) ==
  CASE status = "staged" -> 0 [] status = "assigned" -> 1 [] status = "organized" -> 2

\* C26 -- File status is monotonic: the status of the file at a position of
\* the staging pool never goes back from 'organized' to 'assigned' or 'staged',
\* nor from 'assigned' to 'staged'.
C26_StatusMonotonic ==
  [][ \A k \in 1..Len(stagedFiles) :
        k <= Len(stagedFiles') =>
          StatusRank(fileHeap'[stagedFiles'[k]].status)
            >= StatusRank(fileHeap[stagedFiles[k]].status) ]_vars

\* the step ends an auto-assign pass
PassCompletes == Len(passes') < Len(passes)

\* the step ends the batch of an organize or package handler
TabBatchCompletes ==
  \E k \in 1..Len(batches) :
    /\ batches[k].caller # "client"
    /\ ~batches[k].result.returned
    /\ batches'[k].result.returned

\* C27 -- No lost updates: when a pass or a batch completes, the staging pool
\* still holds every file it held right before, at the same position, and the
\* slot list is the one of right before.
C27_NoLostUpdate ==
  [][ (PassCompletes \/ TabBatchCompletes) =>
        /\ Len(stagedFiles') = Len(stagedFiles)
        /\ \A k \in 1..Len(stagedFiles) :
             fileHeap'[stagedFiles'[k]].name = fileHeap[stagedFiles[k]].name
        /\ targetSlots' = targetSlots ]_vars

\* the step ends the batch k of the organize handler
OrganizeReturns(k) ==
  /\ batches[k].caller = "organize"
  /\ ~batches[k].result.returned
  /\ batches'[k].result.returned

\* C28 -- Organize frame: after a successful organize batch exactly the staged
\* files that were sources of its plan are 'organized', every other staged
\* file keeps its status and the slot list is unchanged; after a failed batch
\* no file status changes.
C28_OrganizeFrame ==
  [][ \A b \in 1..Len(batches) :
        OrganizeReturns(b) =>
          /\ Len(stagedFiles') = Len(stagedFiles)
          /\ targetSlots' = targetSlots
          /\ \A k \in 1..Len(stagedFiles) :
               LET before == fileHeap[stagedFiles[k]].status
                   after  == fileHeap'[stagedFiles'[k]].status
                   source == \E x \in 1..Len(batches[b].items) :
                               batches[b].items[x].source = stagedFiles[k]
               IN  IF batches'[b].result.success /\ source
                   THEN after = "organized"
                   ELSE after = before ]_vars

\* C30 -- the records of the operation history have pairwise distinct ids
\* after any sequence of addOperation calls, so that updateOperation changes
\* one record only.
C30_OperationIdsDistinct ==
  \A j \in 1..Len(operations), k \in 1..Len(operations) :
    j # k => operations[j].id # operations[k].id

----------------------------------------------------------------------------
(* Claims on the batches                                                   *)

IsMatchedSlot(a) == slotHeap[a].status \in {"auto-matched", "assigned"}

\* C24 -- Plan derivation: the plan of a batch started by organize or package
\* holds one item per slot of the skeleton whose status is auto-matched or
\* assigned, in slot order, with that slot's file as source and its path as
\* target; without such a slot no batch is started.
C24_PlanDerivation ==
  [][ (Len(batches') = Len(batches) + 1 /\ batches'[Len(batches')].caller # "client") =>
        LET plan  == SelectSeq(targetSlots, IsMatchedSlot)
            items == batches'[Len(batches')].items
        IN  /\ Len(plan) > 0
            /\ Len(items) = Len(plan)
            /\ \A x \in 1..Len(plan) :
                 /\ items[x].source = slotHeap[plan[x]].assignedFile
                 /\ items[x].target = slotHeap[plan[x]].path ]_vars

\* a batch has just been started from a skeleton with two matched slots and an
\* empty one
C24_Witness ==
  \E k \in 1..Len(batches) :
    /\ batches[k].caller # "client"
    /\ batches[k].i = 0 /\ ~batches[k].result.returned
    /\ Len(batches[k].items) >= 2
    /\ \E j \in 1..Len(targetSlots) : slotHeap[targetSlots[j]].status = "empty"

\* the m-th record of the history, counted from the oldest: a record keeps
\* this position when newer records are put in front of it
OldestRecord(m) == operations[Len(operations) + 1 - m]

\* C29 -- Every started batch terminates: when the timers fire, a started batch
\* returns a result, a pending operation record becomes 'success' or 'error',
\* no record goes back to 'pending', and isProcessing is false when no batch
\* is in flight.
C29_BatchTerminates ==
  /\ \A k \in 1..MaxHookOps :
       (Len(batches) >= k) ~> (Len(batches) >= k /\ batches[k].result.returned)
  /\ \A m \in 1..MaxHookOps :
       (Len(operations) >= m /\ OldestRecord(m).status = "pending")
         ~> (Len(operations) >= m /\ OldestRecord(m).status \in {"success", "error"})
  /\ [][ \A m \in 1..Len(operations) :
           operations[Len(operations) + 1 - m].status # "pending" =>
             operations'[Len(operations') + 1 - m].status # "pending" ]_vars
  /\ []( (\A k \in 1..Len(batches) : batches[k].result.returned) => ~isProcessing )

\* a batch of several items has returned with success, another has failed, and
\* none is in flight
C29_Witness ==
  /\ \E k \in 1..Len(batches) :
       /\ batches[k].result.returned /\ batches[k].result.success
       /\ Len(batches[k].items) >= 2
  /\ \E k \in 1..Len(batches) :
       batches[k].result.returned /\ ~batches[k].result.success
  /\ \A k \in 1..Len(batches) : batches[k].result.returned

====
